---- MODULE Spec2Model ----
(***************************************************************************)
(* Bulk pagination, bounded-concurrency fan-out and retry of the Eclipse   *)
(* Ditto example utilities:                                                *)
(*   - utils/bulk_operations.py: collect_thing_ids_with_progress and       *)
(*     delete_all_things_parallel (with DittoClient.async_delete_thing of  *)
(*     utils/http_client.py),                                              *)
(*   - cleanup.py: cleanup_ditto / _delete_all_things_async / delete_one   *)
(*     and main,                                                           *)
(*   - cleanup-ditto.py: cleanup_ditto and main (with                      *)
(*     DittoClient.list_thing_ids and DittoClient.delete_thing),           *)
(*   - utils/bulk_operations.py: spawn_fleet (with                         *)
(*     DittoClient.create_thing), prog = "spawn".                          *)
(* One behaviour is one run: prog = "bulk" is a call of                    *)
(* delete_all_things_parallel, prog = "cleanup" a run of cleanup.py from   *)
(* the start of _delete_all_things_async, prog = "ditto" a run of          *)
(* cleanup-ditto.py.  The backend holds the things 1..things and           *)
(* serves them in that order, page by page; a cursor is the offset of the  *)
(* next item, 0 standing for an absent cursor.                             *)
(***************************************************************************)
EXTENDS Integers, Sequences, FiniteSets

\* ---------------------------------------------------------------- bounds
MaxThings == 3
MaxPageSize == 2
MaxCount == 2
MaxConcurrent == 2
MaxRetries == 2
MaxEmptyPages == 1

\* count: Optional[int] = None
NoCount == -1

VARIABLES
    prog,             \* which entry point this behaviour runs
    pc,               \* position in that entry point
    things,           \* backend: number of things it holds (ids 1..things)
    flaky,            \* backend: ids whose first failFirst deletes fail
    failFirst,        \* backend: how many deletes of a flaky id fail
    backendDeletes,   \* backend: delete requests received, per id
    deletedThings,    \* backend: ids it has answered 204/404 for
    pager,            \* frame of the paging loop
    all_thing_ids,
    max_concurrent, enable_retry, max_retries,
    client_open,      \* state of the shared httpx.AsyncClient
    sem,              \* value of the asyncio.Semaphore
    st,               \* per id: state of its task in the current round
    doneQueue,        \* asyncio.as_completed: finished tasks not yet awaited
    attempts,         \* per id: calls of sem_delete / delete_one
    attempt,          \* loop variable of the retry loop (0: first pass)
    failedPrev,       \* ids whose attempt of the previous round failed
    deleted_count, failed_deletions, still_failed, retry_success, retry_failed,
    deleted, failed,  \* tallies of cleanup.py; cleanup-ditto.py: its log lines
    result,           \* the returned summary
    cli,              \* the command-line wrappers: steps done, exit status
    fleet             \* frame of spawn_fleet

vars == <<prog, pc, things, flaky, failFirst, backendDeletes, deletedThings,
          pager, all_thing_ids, max_concurrent, enable_retry, max_retries,
          client_open, sem, st, doneQueue, attempts, attempt, failedPrev,
          deleted_count, failed_deletions, still_failed, retry_success,
          retry_failed, deleted, failed, result, cli, fleet>>

backendVars == <<things, flaky, failFirst>>
argVars == <<prog, max_concurrent, enable_retry, max_retries>>
tallyVars == <<deleted_count, failed_deletions, still_failed, retry_success,
               retry_failed>>
cleanupTallies == <<deleted, failed>>
taskVars == <<client_open, sem, st, doneQueue, attempts, backendDeletes,
              deletedThings>>

Ids == 1..MaxThings

ToSet(s) == {s[i] : i \in 1..Len(s)}

Min(a, b) == IF a <= b THEN a ELSE b

\* ------------------------------------------------------- search backend
\* GET /search/things with option size(P)[,cursor(c)]: the items after offset
\* c, at most P of them, and a cursor exactly when more items remain.
BackendPage(c, P) ==
    [items  |-> [i \in 1..(Min(c + P, things) - c) |-> c + i],
     cursor |-> IF c + P < things THEN c + P ELSE 0]

\* ------------------------------------------------- command-line wrappers
\* nothing reported, no later step done, no exit yet, no exception escaped,
\* no synchronous session (httpx.Client) open
NoRun == [reported |-> FALSE, policies |-> FALSE, connections |-> FALSE,
          escaped |-> "none", exit |-> "none", session_open |-> FALSE]

\* ---------------------------------------------------------------- pager
NoFrame == [page_size |-> 0, count |-> NoCount, current_cursor |-> 0,
            has_more_pages |-> FALSE, requests |-> 0, error |-> FALSE,
            empties |-> 0, last_empty |-> FALSE]

\* faulty variant: the limit test without its `is not None` guard
LimitReachedAlways(acc, limit) == Len(acc) >= limit

\* faulty variant: the limit test with > for >=
LimitReachedLate(acc, limit) == limit # NoCount /\ Len(acc) > limit

\* if total_to_collect is not None and len(all_thing_ids) >= total_to_collect
LimitReached(acc, limit) == limit # NoCount /\ Len(acc) >= limit

\* for item in items: ... (the inner loop, with its break)
RECURSIVE TakeIds(_, _, _)
TakeIds(items, acc, limit) ==
    IF items = <<>> THEN [ids |-> acc, stopped |-> FALSE]
    ELSE LET thing_id == Head(items) IN
         IF thing_id # 0
         THEN LET acc2 == Append(acc, thing_id) IN
              IF LimitReached(acc2, limit)
              THEN [ids |-> acc2, stopped |-> TRUE]
              ELSE TakeIds(Tail(items), acc2, limit)
         ELSE TakeIds(Tail(items), acc, limit)

\* faulty variant: the cursor test inverted
MorePagesInverted(stopped, cursor) == (~stopped) /\ cursor = 0

\* has_more_pages = has_more_pages and bool(current_cursor)
MorePages(stopped, cursor) == (~stopped) /\ cursor # 0

\* one iteration of `while has_more_pages` whose request succeeds
FetchPage ==
    /\ prog = "bulk" /\ pc = "collect"
    /\ pager.has_more_pages
    /\ LET data  == BackendPage(pager.current_cursor, pager.page_size)
           taken == TakeIds(data.items, all_thing_ids, pager.count)
       IN /\ all_thing_ids' = taken.ids
          /\ pager' = [pager EXCEPT !.current_cursor = data.cursor,
                                    !.has_more_pages = MorePages(taken.stopped, data.cursor),
                                    !.requests = @ + 1,
                                    !.last_empty = (data.items = <<>>)]
    /\ UNCHANGED <<backendVars, argVars, fleet, cli, taskVars, tallyVars, cleanupTallies,
                   pc, attempt, failedPrev, result>>

\* The search answers with no items and a cursor that repeats the position it
\* was asked for (it only does so for a cursor it has issued, and at most
\* MaxEmptyPages times in a run): the same iteration of the loop, on that page.
FetchEmptyPage ==
    /\ prog = "bulk" /\ pc = "collect"
    /\ pager.has_more_pages
    /\ pager.current_cursor # 0
    /\ pager.empties < MaxEmptyPages
    /\ LET data  == [items |-> <<>>, cursor |-> pager.current_cursor]
           taken == TakeIds(data.items, all_thing_ids, pager.count)
       IN /\ all_thing_ids' = taken.ids
          /\ pager' = [pager EXCEPT !.current_cursor = data.cursor,
                                    !.has_more_pages = MorePages(taken.stopped, data.cursor),
                                    !.requests = @ + 1,
                                    !.empties = @ + 1,
                                    !.last_empty = TRUE]
    /\ UNCHANGED <<backendVars, argVars, fleet, cli, taskVars, tallyVars, cleanupTallies,
                   pc, attempt, failedPrev, result>>

\* faulty variant: the handler logs and goes round the loop again
FetchPageErrorRetries ==
    /\ prog = "bulk" /\ pc = "collect"
    /\ pager.has_more_pages
    /\ pager' = [pager EXCEPT !.requests = @ + 1, !.error = TRUE]
    /\ UNCHANGED <<backendVars, argVars, fleet, cli, taskVars, tallyVars, cleanupTallies,
                   pc, all_thing_ids, attempt, failedPrev, result>>

\* one iteration whose request raises: logging.warning(...); break
FetchPageError ==
    /\ prog = "bulk" /\ pc = "collect"
    /\ pager.has_more_pages
    /\ pager' = [pager EXCEPT !.requests = @ + 1, !.error = TRUE]
    /\ pc' = "collected"
    /\ UNCHANGED <<backendVars, argVars, fleet, cli, taskVars, tallyVars, cleanupTallies,
                   all_thing_ids, attempt, failedPrev, result>>

\* the loop condition is false: pbar.close(), the list is about to be returned
PagerExit ==
    /\ prog = "bulk" /\ pc = "collect"
    /\ ~pager.has_more_pages
    /\ pc' = "collected"
    /\ UNCHANGED <<backendVars, argVars, fleet, cli, taskVars, tallyVars, cleanupTallies,
                   pager, all_thing_ids, attempt, failedPrev, result>>


\* ------------------------------------------------------- delete backend
\* What DELETE /things/{id} can answer to the request the backend has just
\* received: a flaky id fails its first failFirst requests (an error status or
\* a transport error), any other request finds the thing and deletes it (204)
\* or finds it already absent (404).
BackendAnswers(id) ==
    IF id \in flaky /\ backendDeletes[id] <= failFirst
    THEN {"500", "raised"}
    ELSE {"204", "404"}

\* faulty variant: 404 (already absent) not accepted as a success
DeleteSucceededOnly204(status) == status = "204"

\* faulty variant: every answered request counts, whatever its status
DeleteSucceededAnyAnswer(status) == status # "raised"

\* return r.status_code in (204, 404) / except Exception: return False
DeleteSucceeded(status) == status \in {"204", "404"}

\* faulty variant: a slot is granted only while another one is left over
CanAcquireNeedsSpare == sem > 1

\* faulty variant: no admission control
CanAcquireUnbounded == TRUE

\* async with semaphore: admission
CanAcquire == sem > 0

TaskIds == {id \in Ids : st[id] # "none"}
InFlight == {id \in Ids : st[id] = "inflight"}

\* every task of the round has finished and has been awaited
RoundOver ==
    /\ doneQueue = <<>>
    /\ \A id \in Ids : st[id] \in {"none", "finished"}

\* tasks = [sem_delete(thing_id) for thing_id in ids]
TasksFor(ids) == [id \in Ids |-> IF id \in ToSet(ids) THEN "waiting" ELSE "none"]

\* ------------------------------------------- delete_all_things_parallel
EmptySummary ==
    [total_found |-> 0, deleted_count |-> 0, failed_deletions |-> <<>>,
     retry_success |-> <<>>, retry_failed |-> <<>>, success |-> TRUE]

\* faulty variant: the early return reports a failure
ReturnNothingFoundNotSuccess ==
    /\ prog = "bulk" /\ pc = "collected"
    /\ all_thing_ids = <<>>
    /\ pager' = NoFrame
    /\ result' = [EmptySummary EXCEPT !.success = FALSE]
    /\ pc' = "done"
    /\ UNCHANGED <<backendVars, argVars, fleet, cli, taskVars, tallyVars,
                   cleanupTallies, all_thing_ids, attempt, failedPrev>>

\* if not all_thing_ids: return {...}
ReturnNothingFound ==
    /\ prog = "bulk" /\ pc = "collected"
    /\ all_thing_ids = <<>>
    /\ pager' = NoFrame
    /\ result' = EmptySummary
    /\ pc' = "done"
    /\ UNCHANGED <<backendVars, argVars, fleet, cli, taskVars, tallyVars, cleanupTallies,
                   all_thing_ids, attempt, failedPrev>>

\* deleted_count = 0 ... tasks = [sem_delete(thing_id) for thing_id in all_thing_ids]
StartFirstPass ==
    /\ prog = "bulk" /\ pc = "collected"
    /\ all_thing_ids # <<>>
    /\ pager' = NoFrame
    /\ deleted_count' = 0
    /\ failed_deletions' = <<>>
    /\ sem' = max_concurrent
    /\ client_open' = TRUE
    /\ st' = TasksFor(all_thing_ids)
    /\ pc' = "first_pass"
    /\ UNCHANGED <<backendVars, argVars, fleet, cli, cleanupTallies, all_thing_ids, doneQueue,
                   attempts, backendDeletes, deletedThings, attempt, failedPrev,
                   still_failed, retry_success, retry_failed, result>>

\* sem_delete(thing_id) is admitted by the semaphore and calls
\* client.async_delete_thing(thing_id, async_client).  On an open client the
\* request is sent and the task suspends; a closed httpx.AsyncClient raises as
\* soon as it is asked to send, async_delete_thing returns False and the task
\* leaves the semaphore again without ever suspending.
SemDeleteEnter(id) ==
    /\ prog = "bulk" /\ pc \in {"first_pass", "retry"}
    /\ st[id] = "waiting"
    /\ CanAcquire
    /\ attempts' = [attempts EXCEPT ![id] = @ + 1]
    /\ IF client_open
       THEN /\ st' = [st EXCEPT ![id] = "inflight"]
            /\ sem' = sem - 1
            /\ backendDeletes' = [backendDeletes EXCEPT ![id] = @ + 1]
            /\ UNCHANGED doneQueue
       ELSE /\ st' = [st EXCEPT ![id] = "finished"]
            /\ doneQueue' = Append(doneQueue, [id |-> id, success |-> FALSE,
                                               raised |-> TRUE])
            /\ UNCHANGED <<sem, backendDeletes>>
    /\ UNCHANGED <<backendVars, argVars, fleet, cli, tallyVars, cleanupTallies, pc, pager,
                   all_thing_ids, client_open, deletedThings, attempt, failedPrev,
                   result>>

\* faulty variant: the slot is given back only on the success path
SemDeleteFinishLeaksOnFailure(id) ==
    /\ prog = "bulk" /\ pc \in {"first_pass", "retry"}
    /\ st[id] = "inflight"
    /\ \E status \in BackendAnswers(id) :
          /\ doneQueue' = Append(doneQueue,
                                 [id |-> id, success |-> DeleteSucceeded(status),
                                  raised |-> (status = "raised")])
          /\ deletedThings' = IF status \in {"204", "404"}
                              THEN deletedThings \cup {id} ELSE deletedThings
          /\ sem' = IF DeleteSucceeded(status) THEN sem + 1 ELSE sem
    /\ st' = [st EXCEPT ![id] = "finished"]
    /\ UNCHANGED <<backendVars, argVars, fleet, cli, tallyVars, cleanupTallies,
                   pc, pager, all_thing_ids, client_open, attempts, backendDeletes,
                   attempt, failedPrev, result>>

\* faulty variant: async_delete_thing without its `except Exception`, so a
\* raised request leaves sem_delete, as_completed and the caller
SemDeleteFinishPropagates(id) ==
    /\ prog = "bulk" /\ pc \in {"first_pass", "retry"}
    /\ st[id] = "inflight"
    /\ \E status \in BackendAnswers(id) :
          /\ doneQueue' = IF status = "raised" THEN doneQueue
                          ELSE Append(doneQueue,
                                      [id |-> id, success |-> DeleteSucceeded(status),
                                       raised |-> FALSE])
          /\ deletedThings' = IF status \in {"204", "404"}
                              THEN deletedThings \cup {id} ELSE deletedThings
          /\ pc' = IF status = "raised" THEN "raised" ELSE pc
    /\ st' = [st EXCEPT ![id] = "finished"]
    /\ sem' = sem + 1
    /\ UNCHANGED <<backendVars, argVars, fleet, cli, tallyVars, cleanupTallies, pager,
                   all_thing_ids, client_open, attempts, backendDeletes, attempt,
                   failedPrev, result>>

\* the request of an admitted sem_delete completes: the result is computed,
\* the semaphore is released and the task is done
SemDeleteFinish(id) ==
    /\ prog = "bulk" /\ pc \in {"first_pass", "retry"}
    /\ st[id] = "inflight"
    /\ \E status \in BackendAnswers(id) :
          /\ doneQueue' = Append(doneQueue,
                                 [id |-> id, success |-> DeleteSucceeded(status),
                                  raised |-> (status = "raised")])
          /\ deletedThings' = IF status \in {"204", "404"}
                              THEN deletedThings \cup {id} ELSE deletedThings
    /\ st' = [st EXCEPT ![id] = "finished"]
    /\ sem' = sem + 1
    /\ UNCHANGED <<backendVars, argVars, fleet, cli, tallyVars, cleanupTallies, pc, pager,
                   all_thing_ids, client_open, attempts, backendDeletes, attempt,
                   failedPrev, result>>

\* for coro in asyncio.as_completed(tasks): one iteration of the first pass
CollectFirstPass ==
    /\ prog = "bulk" /\ pc = "first_pass"
    /\ doneQueue # <<>>
    /\ LET r == Head(doneQueue) IN
          IF r.success
          THEN /\ deleted_count' = deleted_count + 1
               /\ UNCHANGED failed_deletions
          ELSE /\ failed_deletions' = Append(failed_deletions, r.id)
               /\ UNCHANGED deleted_count
    /\ doneQueue' = Tail(doneQueue)
    /\ UNCHANGED <<backendVars, argVars, fleet, cli, cleanupTallies, pc, pager, all_thing_ids,
                   client_open, sem, st, attempts, backendDeletes, deletedThings,
                   attempt, failedPrev, still_failed, retry_success, retry_failed,
                   result>>

\* faulty variant: the retry block entered whatever enable_retry says
ShouldRetryIgnoresFlag == failed_deletions # <<>>

\* if enable_retry and failed_deletions:
ShouldRetry == enable_retry /\ failed_deletions # <<>>

\* the first pass is over: the `async with httpx.AsyncClient()` block is left,
\* which closes the client; retry_success = []; retry_failed = []
EndFirstPass ==
    /\ prog = "bulk" /\ pc = "first_pass"
    /\ RoundOver
    /\ client_open' = FALSE
    /\ retry_success' = <<>>
    /\ retry_failed' = <<>>
    /\ failedPrev' = TaskIds \ deletedThings
    /\ pc' = IF ShouldRetry THEN "retry_loop" ELSE "summary"
    /\ UNCHANGED <<backendVars, argVars, fleet, cli, cleanupTallies, pager, all_thing_ids, sem,
                   st, doneQueue, attempts, backendDeletes, deletedThings, attempt,
                   deleted_count, failed_deletions, still_failed, result>>

\* faulty variant: one retry round too many
RetryLoopContinuesOneMore == attempt <= max_retries /\ failed_deletions # <<>>

\* for attempt in range(1, max_retries + 1): if not failed_deletions: break
RetryLoopContinues == attempt < max_retries /\ failed_deletions # <<>>

\* faulty variant: a retry round resubmits every collected id
RetryTargetsAll == all_thing_ids

\* retry_tasks = [sem_delete(thing_id) for thing_id in failed_deletions]
RetryTargets == failed_deletions

\* faulty variant: a retry round first pages through the search again
NextRetryRoundRecollects ==
    /\ prog = "bulk" /\ pc = "retry_loop"
    /\ RetryLoopContinues
    /\ attempt' = attempt + 1
    /\ all_thing_ids' = <<>>
    /\ pager' = [NoFrame EXCEPT !.page_size = 1, !.has_more_pages = TRUE]
    /\ pc' = "collect"
    /\ UNCHANGED <<backendVars, argVars, fleet, cli, cleanupTallies, taskVars, failedPrev,
                   tallyVars, result>>

\* one more iteration of the retry loop begins
NextRetryRound ==
    /\ prog = "bulk" /\ pc = "retry_loop"
    /\ RetryLoopContinues
    /\ attempt' = attempt + 1
    /\ st' = TasksFor(RetryTargets)
    /\ still_failed' = <<>>
    /\ pc' = "retry"
    /\ UNCHANGED <<backendVars, argVars, fleet, cli, cleanupTallies, pager, all_thing_ids,
                   client_open, sem, doneQueue, attempts, backendDeletes,
                   deletedThings, failedPrev, deleted_count, failed_deletions,
                   retry_success, retry_failed, result>>

\* for coro in asyncio.as_completed(retry_tasks): one iteration of a retry round
CollectRetry ==
    /\ prog = "bulk" /\ pc = "retry"
    /\ doneQueue # <<>>
    /\ LET r == Head(doneQueue) IN
          IF r.success
          THEN /\ retry_success' = Append(retry_success, r.id)
               /\ deleted_count' = deleted_count + 1
               /\ UNCHANGED still_failed
          ELSE /\ still_failed' = Append(still_failed, r.id)
               /\ UNCHANGED <<retry_success, deleted_count>>
    /\ doneQueue' = Tail(doneQueue)
    /\ UNCHANGED <<backendVars, argVars, fleet, cli, cleanupTallies, pc, pager, all_thing_ids,
                   client_open, sem, st, attempts, backendDeletes, deletedThings,
                   attempt, failedPrev, failed_deletions, retry_failed, result>>

\* faulty variant: failed_deletions += still_failed
EndRetryRoundExtends ==
    /\ prog = "bulk" /\ pc = "retry"
    /\ RoundOver
    /\ failed_deletions' = failed_deletions \o still_failed
    /\ failedPrev' = TaskIds \ deletedThings
    /\ pc' = "retry_loop"
    /\ UNCHANGED <<backendVars, argVars, fleet, cli, cleanupTallies, pager, all_thing_ids,
                   client_open, sem, st, doneQueue, attempts, backendDeletes,
                   deletedThings, attempt, deleted_count, still_failed,
                   retry_success, retry_failed, result>>

\* failed_deletions = still_failed, and back to the head of the loop (the
\* break on an empty list is taken there)
EndRetryRound ==
    /\ prog = "bulk" /\ pc = "retry"
    /\ RoundOver
    /\ failed_deletions' = still_failed
    /\ failedPrev' = TaskIds \ deletedThings
    /\ pc' = "retry_loop"
    /\ UNCHANGED <<backendVars, argVars, fleet, cli, cleanupTallies, pager, all_thing_ids,
                   client_open, sem, st, doneQueue, attempts, backendDeletes,
                   deletedThings, attempt, deleted_count, still_failed,
                   retry_success, retry_failed, result>>

\* the retry loop is left: retry_failed = failed_deletions; failed_deletions = []
RetryLoopExit ==
    /\ prog = "bulk" /\ pc = "retry_loop"
    /\ ~RetryLoopContinues
    /\ retry_failed' = failed_deletions
    /\ failed_deletions' = <<>>
    /\ pc' = "summary"
    /\ UNCHANGED <<backendVars, argVars, fleet, cli, cleanupTallies, pager, all_thing_ids,
                   taskVars, attempt, failedPrev, deleted_count, still_failed,
                   retry_success, result>>

\* faulty variant: the summary reports failed_deletions whether or not retry ran
FinalFailedNoRetryCase == failed_deletions

\* "failed_deletions": retry_failed if enable_retry else failed_deletions
FinalFailed == IF enable_retry THEN retry_failed ELSE failed_deletions

\* return {...}
Summary ==
    [total_found |-> Len(all_thing_ids), deleted_count |-> deleted_count,
     failed_deletions |-> FinalFailed, retry_success |-> retry_success,
     retry_failed |-> retry_failed, success |-> Len(FinalFailed) = 0]

ReturnSummary ==
    /\ prog = "bulk" /\ pc = "summary"
    /\ result' = Summary
    /\ pc' = "done"
    /\ UNCHANGED <<backendVars, argVars, fleet, cli, cleanupTallies, pager, all_thing_ids,
                   taskVars, attempt, failedPrev, tallyVars>>


\* The task running delete_all_things_parallel is cancelled while it waits in
\* an as_completed loop.  CancelledError is caught nowhere in the function (it
\* has no try block), so it leaves the loop, the `async with` block when still
\* inside it, and the function: the locals holding the tallies are discarded
\* and no summary is returned.  The backend keeps what it has done.
Cancel ==
    /\ prog = "bulk" /\ pc \in {"first_pass", "retry"}
    /\ pc' = "cancelled"
    /\ client_open' = FALSE
    /\ sem' = 0
    /\ st' = [id \in Ids |-> "none"]
    /\ doneQueue' = <<>>
    /\ attempt' = 0
    /\ failedPrev' = {}
    /\ deleted_count' = 0
    /\ failed_deletions' = <<>>
    /\ still_failed' = <<>>
    /\ retry_success' = <<>>
    /\ retry_failed' = <<>>
    /\ UNCHANGED <<backendVars, argVars, fleet, cli, cleanupTallies, pager, all_thing_ids,
                   attempts, backendDeletes, deletedThings, result>>

\* ----------------------------------- cleanup.py: _delete_all_things_async
\* the lowest waiting task: asyncio.create_task starts the tasks of a page in
\* list order and the semaphore wakes its waiters first come, first served
FirstWaiting(id) ==
    /\ st[id] = "waiting"
    /\ \A other \in Ids : st[other] = "waiting" => id <= other

\* one iteration of `while True` whose page request answers 200: break on an
\* empty page, otherwise one delete_one task per item that has a thingId
CleanupFetchPage ==
    /\ prog = "cleanup" /\ pc = "cl_page"
    /\ LET data == BackendPage(pager.current_cursor, pager.page_size) IN
          IF data.items = <<>>
          THEN /\ pc' = "cl_exit"
               /\ UNCHANGED st
          ELSE /\ st' = TasksFor(SelectSeq(data.items, LAMBDA thing_id : thing_id # 0))
               /\ pc' = "cl_gather"
    /\ pager' = [pager EXCEPT !.requests = @ + 1]
    /\ UNCHANGED <<backendVars, argVars, fleet, cli, tallyVars, cleanupTallies, all_thing_ids,
                   client_open, sem, doneQueue, attempts, backendDeletes,
                   deletedThings, attempt, failedPrev, result>>

\* if resp.status_code != 200: break
CleanupFetchRejected ==
    /\ prog = "cleanup" /\ pc = "cl_page"
    /\ pager' = [pager EXCEPT !.requests = @ + 1, !.error = TRUE]
    /\ pc' = "cl_exit"
    /\ UNCHANGED <<backendVars, argVars, fleet, cli, taskVars, tallyVars, cleanupTallies,
                   all_thing_ids, attempt, failedPrev, result>>

\* delete_one(thing_id) is admitted by the semaphore and sends its request
DeleteOneEnter(id) ==
    /\ prog = "cleanup" /\ pc = "cl_gather"
    /\ FirstWaiting(id)
    /\ CanAcquire
    /\ st' = [st EXCEPT ![id] = "inflight"]
    /\ sem' = sem - 1
    /\ attempts' = [attempts EXCEPT ![id] = @ + 1]
    /\ backendDeletes' = [backendDeletes EXCEPT ![id] = @ + 1]
    /\ UNCHANGED <<backendVars, argVars, fleet, cli, tallyVars, cleanupTallies, pc, pager,
                   all_thing_ids, client_open, doneQueue, deletedThings, attempt,
                   failedPrev, result>>

\* faulty variant: delete_one without the `failed += 1` of its except branch
DeleteOneFinishDropsError(id) ==
    /\ prog = "cleanup" /\ pc = "cl_gather"
    /\ st[id] = "inflight"
    /\ \E status \in BackendAnswers(id) :
          /\ IF DeleteSucceeded(status)
             THEN deleted' = deleted + 1 /\ UNCHANGED failed
             ELSE IF status = "raised"
                  THEN UNCHANGED <<deleted, failed>>
                  ELSE failed' = failed + 1 /\ UNCHANGED deleted
          /\ deletedThings' = IF status \in {"204", "404"}
                              THEN deletedThings \cup {id} ELSE deletedThings
    /\ st' = [st EXCEPT ![id] = "finished"]
    /\ sem' = sem + 1
    /\ UNCHANGED <<backendVars, argVars, fleet, cli, tallyVars, pc, pager, all_thing_ids,
                   client_open, doneQueue, attempts, backendDeletes, attempt,
                   failedPrev, result>>

\* the request of delete_one completes: if resp.status_code in (204, 404):
\* deleted += 1, else (and on an exception) failed += 1; the semaphore is released
DeleteOneFinish(id) ==
    /\ prog = "cleanup" /\ pc = "cl_gather"
    /\ st[id] = "inflight"
    /\ \E status \in BackendAnswers(id) :
          /\ IF DeleteSucceeded(status)
             THEN deleted' = deleted + 1 /\ UNCHANGED failed
             ELSE failed' = failed + 1 /\ UNCHANGED deleted
          /\ deletedThings' = IF status \in {"204", "404"}
                              THEN deletedThings \cup {id} ELSE deletedThings
    /\ st' = [st EXCEPT ![id] = "finished"]
    /\ sem' = sem + 1
    /\ UNCHANGED <<backendVars, argVars, fleet, cli, tallyVars, pc, pager, all_thing_ids,
                   client_open, doneQueue, attempts, backendDeletes, attempt,
                   failedPrev, result>>

\* faulty variant: the page's tasks are started but not gathered before the
\* loop goes on
CleanupGatherDoneEarly ==
    /\ prog = "cleanup" /\ pc = "cl_gather"
    /\ \A id \in Ids : st[id] # "waiting"
    /\ LET data == BackendPage(pager.current_cursor, pager.page_size) IN
          /\ pager' = [pager EXCEPT !.current_cursor = data.cursor]
          /\ pc' = IF data.cursor = 0 THEN "cl_exit" ELSE "cl_page"
    /\ UNCHANGED <<backendVars, argVars, fleet, cli, tallyVars, cleanupTallies,
                   all_thing_ids, taskVars, attempt, failedPrev, result>>

\* await asyncio.gather(*tasks) returns; cursor = data.get("cursor");
\* if not cursor: break
CleanupGatherDone ==
    /\ prog = "cleanup" /\ pc = "cl_gather"
    /\ RoundOver
    /\ LET data == BackendPage(pager.current_cursor, pager.page_size) IN
          /\ pager' = [pager EXCEPT !.current_cursor = data.cursor]
          /\ pc' = IF data.cursor = 0 THEN "cl_exit" ELSE "cl_page"
    /\ st' = [id \in Ids |-> "none"]
    /\ UNCHANGED <<backendVars, argVars, fleet, cli, tallyVars, cleanupTallies, all_thing_ids,
                   client_open, sem, doneQueue, attempts, backendDeletes,
                   deletedThings, attempt, failedPrev, result>>

\* the loop is left: the `async with httpx.AsyncClient` block ends,
\* pbar.close(); return deleted, failed
CleanupReturn ==
    /\ prog = "cleanup" /\ pc = "cl_exit"
    /\ client_open' = FALSE
    /\ pc' = "cl_report"
    /\ UNCHANGED <<backendVars, argVars, fleet, cli, tallyVars, cleanupTallies, pager,
                   all_thing_ids, sem, st, doneQueue, attempts, backendDeletes,
                   deletedThings, attempt, failedPrev, result>>

\* the exit status main derives from what cleanup_ditto returned
ExitStatus(success) == IF success THEN "0" ELSE "1"

\* resp = await aclient.get(...) raises: the call is in no try block, so the
\* exception leaves the loop, the `async with` block (closing the client) and
\* asyncio.run, and is caught by `except Exception` of cleanup_ditto, which
\* returns False; main exits with 1
CleanupFetchRaises ==
    /\ prog = "cleanup" /\ pc = "cl_page"
    /\ pager' = [pager EXCEPT !.requests = @ + 1, !.error = TRUE]
    /\ client_open' = FALSE
    /\ cli' = [cli EXCEPT !.escaped = "page_fetch",
                          !.exit = ExitStatus(FALSE)]
    /\ pc' = "done"
    /\ UNCHANGED <<backendVars, argVars, fleet, tallyVars, cleanupTallies, all_thing_ids,
                   sem, st, doneQueue, attempts, backendDeletes, deletedThings,
                   attempt, failedPrev, result>>

\* deleted, failed = asyncio.run(...); print_success(f"Deleted things: ...");
\* if failed: print_error(f"Failed deletions: ...")
CleanupReport ==
    /\ prog = "cleanup" /\ pc = "cl_report"
    /\ cli' = [cli EXCEPT !.reported = TRUE]
    /\ pc' = "cl_policies"
    /\ UNCHANGED <<backendVars, argVars, fleet, taskVars, tallyVars, cleanupTallies,
                   pager, all_thing_ids, attempt, failedPrev, result>>

\* for policy_id in known_policies: session.delete(...), every request answered
CleanupPolicies ==
    /\ prog = "cleanup" /\ pc = "cl_policies"
    /\ cli' = [cli EXCEPT !.policies = TRUE]
    /\ pc' = "cl_connections"
    /\ UNCHANGED <<backendVars, argVars, fleet, taskVars, tallyVars, cleanupTallies,
                   pager, all_thing_ids, attempt, failedPrev, result>>

\* for connection_id in known_connection_ids: session.post(...), every request
\* answered; session.close(); return True; sys.exit(0 if success else 1)
CleanupConnections ==
    /\ prog = "cleanup" /\ pc = "cl_connections"
    /\ cli' = [cli EXCEPT !.connections = TRUE, !.session_open = FALSE,
                          !.exit = ExitStatus(TRUE)]
    /\ pc' = "done"
    /\ UNCHANGED <<backendVars, argVars, fleet, taskVars, tallyVars, cleanupTallies,
                   pager, all_thing_ids, attempt, failedPrev, result>>

\* session.delete / session.post of a later step raises (neither is in a try
\* block of its own): except Exception: print_error; return False
CleanupStepRaises ==
    /\ prog = "cleanup" /\ pc \in {"cl_policies", "cl_connections"}
    /\ cli' = [cli EXCEPT !.escaped = IF pc = "cl_policies" THEN "policy"
                                                           ELSE "connection",
                          !.exit = ExitStatus(FALSE)]
    /\ pc' = "done"
    /\ UNCHANGED <<backendVars, argVars, fleet, taskVars, tallyVars, cleanupTallies,
                   pager, all_thing_ids, attempt, failedPrev, result>>

\* ------------------------------------------- cleanup-ditto.py: a whole run
\* main: the answer to the confirmation prompt is not yes:
\* print("Cleanup cancelled."); sys.exit(0)
DittoDeclined ==
    /\ prog = "ditto" /\ pc = "dt_confirm"
    /\ cli' = [cli EXCEPT !.exit = "0"]
    /\ pc' = "done"
    /\ UNCHANGED <<backendVars, argVars, fleet, taskVars, tallyVars, cleanupTallies,
                   pager, all_thing_ids, attempt, failedPrev, result>>

\* the answer is yes; load_dotenv(), Config.load() and DittoClient(config)
\* succeed (the client opens its httpx.Client session) and
\* client.list_thing_ids() is entered
DittoSetup ==
    /\ prog = "ditto" /\ pc = "dt_confirm"
    /\ cli' = [cli EXCEPT !.session_open = TRUE]
    /\ pc' = "dt_list"
    /\ UNCHANGED <<backendVars, argVars, fleet, taskVars, tallyVars, cleanupTallies,
                   pager, all_thing_ids, attempt, failedPrev, result>>

\* the answer is yes and the setup raises (Config.load: int() of a
\* BENCHMARK_COUNT that is no number): except Exception: return False
DittoSetupFails ==
    /\ prog = "ditto" /\ pc = "dt_confirm"
    /\ cli' = [cli EXCEPT !.escaped = "setup", !.exit = ExitStatus(FALSE)]
    /\ pc' = "done"
    /\ UNCHANGED <<backendVars, argVars, fleet, taskVars, tallyVars, cleanupTallies,
                   pager, all_thing_ids, attempt, failedPrev, result>>

\* DittoClient.list_thing_ids: one iteration of `while has_more_pages` whose
\* request succeeds
ListFetchPage ==
    /\ prog = "ditto" /\ pc = "dt_list"
    /\ pager.has_more_pages
    /\ LET data == BackendPage(pager.current_cursor, pager.page_size) IN
          /\ all_thing_ids' = all_thing_ids \o
                                SelectSeq(data.items, LAMBDA thing_id : thing_id # 0)
          /\ pager' = [pager EXCEPT !.current_cursor = data.cursor,
                                    !.has_more_pages = (data.cursor # 0),
                                    !.requests = @ + 1,
                                    !.last_empty = (data.items = <<>>)]
    /\ UNCHANGED <<backendVars, argVars, fleet, cli, taskVars, tallyVars, cleanupTallies,
                   pc, attempt, failedPrev, result>>

\* DittoClient.list_thing_ids: the request raises or raise_for_status does:
\* except Exception: break; return all_thing_ids
ListFetchError ==
    /\ prog = "ditto" /\ pc = "dt_list"
    /\ pager.has_more_pages
    /\ pager' = [pager EXCEPT !.requests = @ + 1, !.error = TRUE]
    /\ pc' = "dt_delete"
    /\ UNCHANGED <<backendVars, argVars, fleet, cli, taskVars, tallyVars, cleanupTallies,
                   all_thing_ids, attempt, failedPrev, result>>

\* DittoClient.list_thing_ids: the loop condition is false; return all_thing_ids
ListExit ==
    /\ prog = "ditto" /\ pc = "dt_list"
    /\ ~pager.has_more_pages
    /\ pc' = "dt_delete"
    /\ UNCHANGED <<backendVars, argVars, fleet, cli, taskVars, tallyVars, cleanupTallies,
                   pager, all_thing_ids, attempt, failedPrev, result>>

\* for thing_id in thing_ids: id is the first listed id not yet handled
DittoNextId(id) ==
    \E i \in 1..Len(all_thing_ids) :
       /\ all_thing_ids[i] = id
       /\ attempts[id] = 0
       /\ \A j \in 1..(i - 1) : attempts[all_thing_ids[j]] > 0

\* client.delete_thing(thing_id) sends DELETE /things/{id} and blocks
DittoDeleteSend(id) ==
    /\ prog = "ditto" /\ pc = "dt_delete"
    /\ InFlight = {}
    /\ DittoNextId(id)
    /\ st' = [st EXCEPT ![id] = "inflight"]
    /\ attempts' = [attempts EXCEPT ![id] = @ + 1]
    /\ backendDeletes' = [backendDeletes EXCEPT ![id] = @ + 1]
    /\ UNCHANGED <<backendVars, argVars, fleet, cli, tallyVars, cleanupTallies, pc, pager,
                   all_thing_ids, client_open, sem, doneQueue, deletedThings,
                   attempt, failedPrev, result>>

\* delete_thing returns r.status_code in (204, 404), False on an exception;
\* the loop logs "Deleted thing" (counted in deleted) or "Failed to delete
\* thing" (counted in failed)
DittoDeleteReply(id) ==
    /\ prog = "ditto" /\ pc = "dt_delete"
    /\ st[id] = "inflight"
    /\ \E status \in BackendAnswers(id) :
          /\ IF DeleteSucceeded(status)
             THEN deleted' = deleted + 1 /\ UNCHANGED failed
             ELSE failed' = failed + 1 /\ UNCHANGED deleted
          /\ deletedThings' = IF status \in {"204", "404"}
                              THEN deletedThings \cup {id} ELSE deletedThings
    /\ st' = [st EXCEPT ![id] = "finished"]
    /\ UNCHANGED <<backendVars, argVars, fleet, cli, tallyVars, pc, pager, all_thing_ids,
                   client_open, sem, doneQueue, attempts, backendDeletes, attempt,
                   failedPrev, result>>

\* the loop over thing_ids is over (or nothing was found); the policy and
\* connection steps run, each request in a try block of its own; return True;
\* finally: client.close(); sys.exit(0 if success else 1)
DittoFinish ==
    /\ prog = "ditto" /\ pc = "dt_delete"
    /\ InFlight = {}
    /\ \A id \in Ids : ~DittoNextId(id)
    /\ cli' = [cli EXCEPT !.policies = TRUE, !.connections = TRUE,
                          !.session_open = FALSE, !.exit = ExitStatus(TRUE)]
    /\ pc' = "done"
    /\ UNCHANGED <<backendVars, argVars, fleet, taskVars, tallyVars, cleanupTallies,
                   pager, all_thing_ids, attempt, failedPrev, result>>

\* ----------------------------------------------------------- spawn_fleet
\* created_count = 0; failed_creations = []; no iteration done, nothing sent
\* (puts: PUT requests sent; stored: PUT requests the backend answered 2xx)
NoFleet == [count |-> 0, done |-> 0, created_count |-> 0,
            failed_creations |-> <<>>, inflight |-> FALSE, puts |-> 0,
            stored |-> 0]

\* what PUT /things/{id} can come back with: a 2xx status, an error status
\* (raise_for_status raises HTTPStatusError), or a transport error
CreateAnswers == {"201", "204", "400", "500", "raised"}

\* faulty variant: a client error is not taken as a failure
CreateSucceededBelow500(status) == status \in {"201", "204", "400"}

\* response.raise_for_status(); return True / except ...: return False
CreateSucceeded(status) == status \in {"201", "204"}

\* load_policy, client.create_policy and the schema detection are done
SpawnSetup ==
    /\ prog = "spawn" /\ pc = "sp_setup"
    /\ pc' = "sp_loop"
    /\ UNCHANGED <<backendVars, argVars, fleet, cli, taskVars, tallyVars,
                   cleanupTallies, pager, all_thing_ids, attempt, failedPrev, result>>

\* load_policy raises (the policy file cannot be read): it is called outside
\* any try block, the exception reaches the caller of spawn_fleet
SpawnSetupRaises ==
    /\ prog = "spawn" /\ pc = "sp_setup"
    /\ pc' = "sp_raised"
    /\ UNCHANGED <<backendVars, argVars, fleet, cli, taskVars, tallyVars,
                   cleanupTallies, pager, all_thing_ids, attempt, failedPrev, result>>

\* an iteration whose descriptor generation raises: except Exception:
\* failed_creations.append(f"unknown-{created_count}")
SpawnGenerateRaises ==
    /\ prog = "spawn" /\ pc = "sp_loop"
    /\ fleet.done < fleet.count /\ ~fleet.inflight
    /\ fleet' = [fleet EXCEPT
                   !.failed_creations =
                       Append(@, [kind |-> "unknown", n |-> fleet.created_count]),
                   !.done = @ + 1]
    /\ UNCHANGED <<backendVars, argVars, cli, taskVars, tallyVars,
                   cleanupTallies, pager, all_thing_ids, attempt, failedPrev, result,
                   pc>>

\* an iteration generates its descriptor and client.create_thing sends the PUT
SpawnCreateSend ==
    /\ prog = "spawn" /\ pc = "sp_loop"
    /\ fleet.done < fleet.count /\ ~fleet.inflight
    /\ fleet' = [fleet EXCEPT !.inflight = TRUE, !.puts = @ + 1]
    /\ UNCHANGED <<backendVars, argVars, cli, taskVars, tallyVars,
                   cleanupTallies, pager, all_thing_ids, attempt, failedPrev, result,
                   pc>>

\* create_thing returns: if success: created_count += 1
\* else: failed_creations.append(thing_id)
SpawnCreateReply ==
    /\ prog = "spawn" /\ pc = "sp_loop"
    /\ fleet.inflight
    /\ \E status \in CreateAnswers :
          LET stored == IF status \in {"201", "204"} THEN fleet.stored + 1
                                                     ELSE fleet.stored
          IN fleet' = IF CreateSucceeded(status)
                      THEN [fleet EXCEPT !.created_count = @ + 1, !.stored = stored,
                                         !.done = @ + 1, !.inflight = FALSE]
                      ELSE [fleet EXCEPT
                              !.failed_creations =
                                  Append(@, [kind |-> "thing", n |-> fleet.done + 1]),
                              !.stored = stored,
                              !.done = @ + 1, !.inflight = FALSE]
    /\ UNCHANGED <<backendVars, argVars, cli, taskVars, tallyVars,
                   cleanupTallies, pager, all_thing_ids, attempt, failedPrev, result,
                   pc>>

\* return {"requested_count": count, ...}
FleetSummary ==
    [requested_count |-> fleet.count, created_count |-> fleet.created_count,
     failed_creations |-> fleet.failed_creations,
     success |-> Len(fleet.failed_creations) = 0]

\* the loop over range(count) is exhausted
SpawnReturn ==
    /\ prog = "spawn" /\ pc = "sp_loop"
    /\ fleet.done >= fleet.count /\ ~fleet.inflight
    /\ result' = FleetSummary
    /\ pc' = "done"
    /\ UNCHANGED <<backendVars, argVars, fleet, cli, taskVars, tallyVars,
                   cleanupTallies, pager, all_thing_ids, attempt, failedPrev>>

\* ------------------------------------------------------------ behaviours
\* the backend and what both entry points start from
InitCommon ==
    /\ things \in 0..MaxThings
    /\ flaky \in SUBSET (1..things)
    /\ failFirst \in (IF flaky = {} THEN {1} ELSE 1..MaxRetries)
    /\ backendDeletes = [id \in Ids |-> 0]
    /\ deletedThings = {}
    /\ all_thing_ids = <<>>
    /\ max_concurrent \in 1..MaxConcurrent
    /\ st = [id \in Ids |-> "none"]
    /\ doneQueue = <<>>
    /\ attempts = [id \in Ids |-> 0]
    /\ attempt = 0
    /\ failedPrev = {}
    /\ deleted_count = 0
    /\ failed_deletions = <<>>
    /\ still_failed = <<>>
    /\ retry_success = <<>>
    /\ retry_failed = <<>>
    /\ deleted = 0
    /\ failed = 0
    /\ result = EmptySummary

\* delete_all_things_parallel(client, page_size, max_concurrent, count,
\* enable_retry, max_retries) entering collect_thing_ids_with_progress
InitBulk ==
    /\ prog = "bulk"
    /\ pc = "collect"
    /\ fleet = NoFleet
    /\ cli = NoRun
    /\ \E P \in 1..MaxPageSize, c \in {NoCount} \cup 1..MaxCount :
          pager = [page_size |-> P, count |-> c, current_cursor |-> 0,
                   has_more_pages |-> TRUE, requests |-> 0, error |-> FALSE,
                   empties |-> 0, last_empty |-> FALSE]
    /\ enable_retry \in BOOLEAN
    /\ max_retries \in (IF enable_retry THEN 0..MaxRetries ELSE {MaxRetries})
    /\ client_open = FALSE
    /\ sem = 0

\* cleanup.py: cleanup_ditto has opened its session (httpx.Client) and
\* _delete_all_things_async() is inside its `async with httpx.AsyncClient`
InitCleanup ==
    /\ prog = "cleanup"
    /\ pc = "cl_page"
    /\ fleet = NoFleet
    /\ cli = [NoRun EXCEPT !.session_open = TRUE]
    /\ \E P \in 1..MaxPageSize :
          pager = [page_size |-> P, count |-> NoCount, current_cursor |-> 0,
                   has_more_pages |-> TRUE, requests |-> 0, error |-> FALSE,
                   empties |-> 0, last_empty |-> FALSE]
    /\ enable_retry = FALSE
    /\ max_retries = 0
    /\ client_open = TRUE
    /\ sem = max_concurrent

\* cleanup-ditto.py: main at its confirmation prompt
InitDitto ==
    /\ prog = "ditto"
    /\ pc = "dt_confirm"
    /\ fleet = NoFleet
    /\ cli = NoRun
    /\ \E P \in 1..MaxPageSize :
          pager = [page_size |-> P, count |-> NoCount, current_cursor |-> 0,
                   has_more_pages |-> TRUE, requests |-> 0, error |-> FALSE,
                   empties |-> 0, last_empty |-> FALSE]
    /\ enable_retry = FALSE
    /\ max_retries = 0
    /\ client_open = FALSE
    /\ sem = 0

\* spawn_fleet(client, schema_path, policy_path, count) at its first line
InitSpawn ==
    /\ prog = "spawn"
    /\ pc = "sp_setup"
    /\ \E c \in 0..MaxCount : fleet = [NoFleet EXCEPT !.count = c]
    /\ cli = NoRun
    /\ pager = NoFrame
    /\ enable_retry = FALSE
    /\ max_retries = 0
    /\ client_open = FALSE
    /\ sem = 0

Init == InitCommon /\ (InitBulk \/ InitCleanup \/ InitDitto \/ InitSpawn)

Next ==
    \/ FetchPage
    \/ FetchEmptyPage
    \/ FetchPageError
    \/ PagerExit
    \/ ReturnNothingFound
    \/ StartFirstPass
    \/ \E id \in Ids : SemDeleteEnter(id)
    \/ \E id \in Ids : SemDeleteFinish(id)
    \/ CollectFirstPass
    \/ EndFirstPass
    \/ NextRetryRound
    \/ CollectRetry
    \/ EndRetryRound
    \/ RetryLoopExit
    \/ ReturnSummary
    \/ Cancel
    \/ CleanupFetchPage
    \/ CleanupFetchRejected
    \/ \E id \in Ids : DeleteOneEnter(id)
    \/ \E id \in Ids : DeleteOneFinish(id)
    \/ CleanupGatherDone
    \/ CleanupReturn
    \/ CleanupFetchRaises
    \/ CleanupReport
    \/ CleanupPolicies
    \/ CleanupConnections
    \/ CleanupStepRaises
    \/ DittoDeclined
    \/ DittoSetup
    \/ DittoSetupFails
    \/ ListFetchPage
    \/ ListFetchError
    \/ ListExit
    \/ \E id \in Ids : DittoDeleteSend(id)
    \/ \E id \in Ids : DittoDeleteReply(id)
    \/ DittoFinish
    \/ SpawnSetup
    \/ SpawnSetupRaises
    \/ SpawnGenerateRaises
    \/ SpawnCreateSend
    \/ SpawnCreateReply
    \/ SpawnReturn

Spec == Init /\ [][Next]_vars

\* A call of delete_all_things_parallel that nothing interrupts.  The event
\* loop runs every task that is ready and every request sent is answered or
\* fails in the end (the client's timeout), so a step that stays possible is
\* taken.
BulkNext ==
    \/ FetchPage
    \/ FetchEmptyPage
    \/ FetchPageError
    \/ PagerExit
    \/ ReturnNothingFound
    \/ StartFirstPass
    \/ \E id \in Ids : SemDeleteEnter(id)
    \/ \E id \in Ids : SemDeleteFinish(id)
    \/ CollectFirstPass
    \/ EndFirstPass
    \/ NextRetryRound
    \/ CollectRetry
    \/ EndRetryRound
    \/ RetryLoopExit
    \/ ReturnSummary

InitLive == InitCommon /\ InitBulk

LiveSpec == InitLive /\ [][BulkNext]_vars /\ WF_vars(BulkNext)


\* ================================================================ claims
Collected == ToSet(all_thing_ids)
NoDuplicates(s) == Cardinality(ToSet(s)) = Len(s)
CeilDiv(a, b) == (a + b - 1) \div b
Returned == prog = "bulk" /\ pc = "done"
PagerDone == prog = "bulk" /\ pc = "collected" /\ ~pager.error /\ pager.empties = 0
\* ids the backend deleted at their first attempt
FirstPassSucceeded == {id \in Collected : id \in deletedThings /\ attempts[id] = 1}

\* C1: when delete_all_things_parallel returns with enable_retry true, every
\* collected id is in exactly one of: succeeded on the first pass,
\* retry_success, the returned failed list (= retry_failed); no list holds an
\* id twice or a foreign id, and deleted_count = total_found - len(failed).
C1_Partition ==
    (Returned /\ enable_retry) =>
        /\ \A id \in Collected :
              /\ id \in FirstPassSucceeded \cup ToSet(result.retry_success)
                                           \cup ToSet(result.failed_deletions)
              /\ ~(id \in FirstPassSucceeded /\ id \in ToSet(result.retry_success))
              /\ ~(id \in FirstPassSucceeded /\ id \in ToSet(result.failed_deletions))
              /\ ~(id \in ToSet(result.retry_success)
                   /\ id \in ToSet(result.failed_deletions))
        /\ NoDuplicates(result.retry_success)
        /\ NoDuplicates(result.failed_deletions)
        /\ ToSet(result.retry_success) \cup ToSet(result.failed_deletions)
              \subseteq Collected
        /\ result.failed_deletions = result.retry_failed
        /\ result.total_found = Len(all_thing_ids)
        /\ result.deleted_count = result.total_found - Len(result.failed_deletions)

C1_Witness ==
    /\ Returned /\ enable_retry /\ max_retries >= 1
    /\ FirstPassSucceeded # {}
    /\ Len(result.retry_failed) >= 2

\* C2: the number of delete requests in flight never exceeds max_concurrent,
\* in the first pass and the retry rounds of delete_all_things_parallel and
\* in the page fan-out of cleanup.py.
C2_ConcurrencyCeiling == Cardinality(InFlight) <= max_concurrent

C2_Witness ==
    /\ max_concurrent >= 2
    /\ Cardinality(InFlight) = max_concurrent
    /\ \E id \in Ids : st[id] = "waiting"

\* C3: with enable_retry true, a collected id whose delete fails on its first
\* R attempts and would succeed afterwards ends in retry_success (and is
\* counted in deleted_count) if max_retries >= R, and in retry_failed if
\* max_retries < R.
C3_RetryOutcome ==
    (Returned /\ enable_retry) =>
        \A id \in Collected \cap flaky :
            /\ max_retries >= failFirst =>
                  /\ id \in ToSet(result.retry_success)
                  /\ id \notin ToSet(result.retry_failed)
                  /\ result.deleted_count >= 1
            /\ max_retries < failFirst => id \in ToSet(result.retry_failed)

\* C4: with enable_retry true no id is attempted more than 1 + max_retries
\* times, and an id none of whose attempts succeeded has, at return, been
\* attempted exactly 1 + max_retries times, is in retry_failed, and success
\* is false.
C4_PermanentFailure ==
    (prog = "bulk" /\ enable_retry) =>
        /\ \A id \in Ids : attempts[id] <= 1 + max_retries
        /\ pc = "done" =>
              \A id \in Collected \ deletedThings :
                  /\ attempts[id] = 1 + max_retries
                  /\ id \in ToSet(result.retry_failed)
                  /\ ~result.success

C4_Witness ==
    /\ Returned /\ enable_retry /\ max_retries = 2
    /\ \E id \in Collected \ deletedThings :
          attempts[id] = 3 /\ id \in ToSet(result.retry_failed)
    /\ ~result.success

\* C5: if the backend makes every delete of the first pass succeed, no retry
\* round runs: no id is attempted a second time, retry_success and
\* retry_failed are empty and success is true.
C5_ZeroFailureFastPath ==
    (prog = "bulk" /\ pc \notin {"collect", "collected"}
                   /\ Collected \cap flaky = {}) =>
        /\ attempt = 0
        /\ pc # "retry"
        /\ \A id \in Ids : attempts[id] <= 1
        /\ pc = "done" =>
              /\ \A id \in Collected : attempts[id] = 1
              /\ result.retry_success = <<>>
              /\ result.retry_failed = <<>>
              /\ result.success

C5_Witness ==
    /\ Returned /\ enable_retry /\ max_retries >= 1
    /\ Len(all_thing_ids) >= 2
    /\ Collected \cap flaky = {}
    /\ \A id \in Collected : attempts[id] = 1

\* C6: the ids submitted to a retry round are exactly the ids whose attempt
\* failed in the round before (the first pass for round 1), and an id the
\* backend has deleted is never submitted again.
C6_RetryOnlyFailed ==
    prog = "bulk" =>
        /\ pc = "retry" => (TaskIds = failedPrev /\ failedPrev \subseteq Collected)
        /\ \A id \in deletedThings :
              st[id] \in {"none", "finished"}

C6_Witness ==
    /\ prog = "bulk" /\ pc = "retry" /\ attempt = 2
    /\ TaskIds # {}
    /\ TaskIds # Collected
    /\ \E id \in TaskIds : st[id] = "finished"

\* C7: at return, success is true iff no collected id remains undeleted, iff
\* the returned failed_deletions list is empty, with and without retry.
C7_SuccessFlag ==
    Returned =>
        /\ result.success <=> (Collected \subseteq deletedThings)
        /\ result.success <=> (result.failed_deletions = <<>>)
        /\ ToSet(result.failed_deletions) = Collected \ deletedThings

C7_Witness ==
    /\ Returned /\ ~enable_retry
    /\ ~result.success
    /\ Collected \cap deletedThings # {}

\* C8: against a backend of N things served in pages of size P, without a
\* count limit and without a failing request, the pager stops (every request
\* but the first is made only while things remain beyond the pages already
\* fetched) and returns exactly the N ids, each once, in backend order.
C8_PagerComplete ==
    (prog = "bulk" /\ pager.count = NoCount /\ ~pager.error /\ pager.empties = 0) =>
        /\ (pc = "collect" /\ pager.has_more_pages) =>
              (pager.requests = 0 \/ pager.requests * pager.page_size < things)
        /\ pc = "collected" => all_thing_ids = [i \in 1..things |-> i]

C8_Witness ==
    /\ PagerDone /\ pager.count = NoCount
    /\ things = 3 /\ pager.page_size = 2 /\ pager.requests = 2
    /\ Len(all_thing_ids) = 3

\* C9 as stated: without a count limit the pager issues exactly ceil(N/P)
\* page requests, for every N >= 0.
C9_RequestsCeil ==
    (PagerDone /\ pager.count = NoCount) =>
        pager.requests = CeilDiv(things, pager.page_size)

\* C9 as amended: ceil(N/P) requests for N >= 1, and one request for N = 0
\* (the request that finds the backend empty).
C9_RequestsCeilOrOne ==
    (PagerDone /\ pager.count = NoCount) =>
        pager.requests = IF things = 0 THEN 1
                         ELSE CeilDiv(things, pager.page_size)

C9_Witness ==
    /\ PagerDone /\ pager.count = NoCount
    /\ things = 0 /\ pager.requests = 1 /\ all_thing_ids = <<>>

\* C10: with count = c >= 1 and a backend of at least c things, the pager
\* returns exactly the first c ids and makes no request after the page that
\* held the c-th id (page ceil(c/P)), even if that page carried a cursor.
C10_CountLimit ==
    (PagerDone /\ pager.count # NoCount /\ things >= pager.count) =>
        /\ all_thing_ids = [i \in 1..pager.count |-> i]
        /\ pager.requests = CeilDiv(pager.count, pager.page_size)
        /\ ~pager.has_more_pages

C10_Witness ==
    /\ PagerDone /\ pager.count = 1 /\ pager.page_size = 2 /\ things = 3
    /\ pager.requests = 1
    /\ pager.current_cursor # 0
    /\ all_thing_ids = <<1>>

\* ------------------------------------------------------------------ C11
\* A page that ends the collection: the last answer had no items, or had no
\* next cursor, or brought the collected total to count.
EndingPageSeen ==
    /\ prog = "bulk" /\ pc = "collect" /\ pager.requests > 0
    /\ \/ pager.last_empty
       \/ pager.current_cursor = 0
       \/ LimitReached(all_thing_ids, pager.count)

\* C11: collect_thing_ids_with_progress issues no further page request after
\* the first page that returns no items, returns no next cursor, or brings the
\* collected total to count; a page with zero items ends pagination even when
\* it carries a cursor.
C11_StopsAfterEndingPage ==
    [][EndingPageSeen => pager'.requests <= pager.requests]_vars

\* ------------------------------------------------------------------ C12
\* the ids of the pages answered before the failed request, the k-th one
\* (k = pager.requests): the pages with items hold page_size ids each
PagesBeforeError ==
    [i \in 1..Min((pager.requests - 1 - pager.empties) * pager.page_size, things)
       |-> i]

\* C12: when the k-th page request fails, the pager makes no further page
\* request and does not retry, raises nothing (it returns), returns exactly the
\* ids of pages 1..k-1, and delete_all_things_parallel then works on exactly
\* that partial id set.
C12_PageErrorTruncates ==
    /\ []((prog = "bulk" /\ pager.error) =>
            /\ pc = "collected"
            /\ all_thing_ids = PagesBeforeError)
    /\ [][(prog = "bulk" /\ pager.error /\ pc' # pc) =>
            /\ pc' \in {"first_pass", "done"}
            /\ all_thing_ids' = all_thing_ids
            /\ TaskIds' = ToSet(all_thing_ids)]_vars

C12_Witness ==
    /\ prog = "bulk" /\ pc = "collected" /\ pager.error
    /\ pager.requests = 2 /\ pager.page_size = 1 /\ things = 3
    /\ all_thing_ids = <<1>>

\* ------------------------------------------------------------------ C13
\* the ids whose single delete attempt of cleanup.py / cleanup-ditto.py is over
AttemptOver == {id \in Ids : attempts[id] > 0 /\ st[id] # "inflight"}

\* C13: a delete attempt counts as a success exactly when the backend answered
\* 204 or 404 (deletedThings records those answers); any other status and any
\* raised error counts as a failure.  For async_delete_thing this is the result
\* handed to the round, for delete_one and delete_thing the counter or log line
\* the attempt lands in.
C13_SuccessIs204Or404 ==
    /\ \A i \in 1..Len(doneQueue) :
          /\ doneQueue[i].success <=> doneQueue[i].id \in deletedThings
          /\ doneQueue[i].raised => ~doneQueue[i].success
    /\ prog \in {"cleanup", "ditto"} =>
          /\ deleted = Cardinality(AttemptOver \cap deletedThings)
          /\ failed = Cardinality(AttemptOver \ deletedThings)

C13_Witness ==
    /\ prog = "ditto" /\ pc = "done"
    /\ deleted = 1 /\ failed = 2
    /\ deletedThings = {2}

\* ------------------------------------------------------------------ C14
\* a round of delete_all_things_parallel is running
InRound == prog = "bulk" /\ pc \in {"first_pass", "retry"}

\* C14: in delete_all_things_parallel a delete attempt that raises or times
\* out is a failure of that id only: nothing is propagated to the caller (the
\* call never ends in "raised"), the result is a failure, the other ids of the
\* round are still attempted (when the round is over every submitted id has
\* had its attempt of that round), and the id is put on the failure list the
\* next retry round is built from when its result is taken from the round.
C14_RaisedIsLocalFailure ==
    /\ [](/\ pc # "raised"
          /\ \A i \in 1..Len(doneQueue) : doneQueue[i].raised => ~doneQueue[i].success
          /\ (InRound /\ RoundOver) => \A id \in TaskIds : attempts[id] = attempt + 1)
    /\ [][(InRound /\ pc' = pc /\ doneQueue # <<>> /\ doneQueue' = Tail(doneQueue)
             /\ Head(doneQueue).raised) =>
            Head(doneQueue).id \in
              ToSet(IF pc = "first_pass" THEN failed_deletions' ELSE still_failed')]_vars
    /\ [][(prog = "bulk" /\ pc = "retry" /\ pc' = "retry_loop") =>
            failed_deletions' = still_failed]_vars

C14_Witness ==
    /\ prog = "bulk" /\ pc = "first_pass"
    /\ \E i \in 1..Len(doneQueue) : doneQueue[i].raised
    /\ InFlight # {}
    /\ \E id \in Ids : st[id] = "waiting"

\* ------------------------------------------------------------------ C15
\* C15: in every round of delete_all_things_parallel (first pass or retry),
\* by the time the round completes each id submitted to the round has had its
\* delete operation issued to the backend exactly once in that round: after
\* round number `attempt` (0 for the first pass) the backend has received
\* attempt + 1 delete requests for every id of the round.
C15_IssuedOncePerRound ==
    (InRound /\ RoundOver) => \A id \in TaskIds : backendDeletes[id] = attempt + 1

\* ------------------------------------------------------------------ C16
\* a delete attempt has started
DeleteStarted == \E id \in Ids : attempts[id] > 0

\* C16: delete_all_things_parallel collects its id set once: every page
\* request happens before the first delete attempt starts, no page request is
\* issued after any delete attempt (first pass or retry rounds), and the
\* collected list does not change once the pager has returned it.
C16_CollectedOnce ==
    /\ []((prog = "bulk" /\ DeleteStarted) => pc \notin {"collect", "collected"})
    /\ [][(prog = "bulk" /\ pager'.requests > pager.requests) =>
            (pc = "collect" /\ ~DeleteStarted /\ ~DeleteStarted')]_vars
    /\ [][(prog = "bulk" /\ pc # "collect") => all_thing_ids' = all_thing_ids]_vars

C16_Witness ==
    /\ prog = "bulk" /\ pc = "retry" /\ attempt = 2
    /\ \E id \in Ids : attempts[id] = 3
    /\ Len(all_thing_ids) = 3
    /\ pager = NoFrame

\* ------------------------------------------------------------------ C17
\* C17: the command-line wrappers (cleanup.py main, cleanup-ditto.py main) exit
\* with a non-zero status whenever at least one thing deletion ended as a
\* failure, and with status 0 only when no thing deletion failed.
C17_ExitReflectsFailures ==
    (prog \in {"cleanup", "ditto"} /\ cli.exit # "none") =>
        /\ failed > 0 => cli.exit # "0"
        /\ cli.exit = "0" => failed = 0

\* ------------------------------------------------------------------ C18
\* C18: if delete_all_things_parallel is interrupted (cancelled) while a round
\* is in progress, the caller still obtains a partial summary whose tallies
\* reflect exactly the delete attempts completed before the interrupt: it
\* counts the collected ids and the deletions the backend had confirmed.
C18_PartialSummaryOnCancel ==
    (prog = "bulk" /\ pc = "cancelled") =>
        /\ result.total_found = Len(all_thing_ids)
        /\ result.deleted_count = Cardinality(deletedThings)

\* ------------------------------------------------------------------ C19
\* the ids a delete_one task was created for and started
Dispatched == {id \in Ids : attempts[id] > 0}

\* _delete_all_things_async has returned its (deleted, failed) pair
CleanupReturned ==
    /\ prog = "cleanup"
    /\ pc \in {"cl_report", "cl_policies", "cl_connections", "done"}
    /\ cli.escaped # "page_fetch"

\* C19: in _delete_all_things_async no tally update is lost under any
\* interleaving of the delete_one tasks: the two counters together count the
\* finished tasks, every step raises at most one of them and by exactly the
\* number of tasks that finish in it, no id is dispatched twice, and at return
\* deleted + failed is the number of tasks dispatched.
C19_NoLostTally ==
    /\ [](prog = "cleanup" =>
            /\ deleted + failed = Cardinality(AttemptOver)
            /\ \A id \in Ids : attempts[id] <= 1
            /\ CleanupReturned => deleted + failed = Cardinality(Dispatched))
    /\ [][prog = "cleanup" =>
            /\ deleted' >= deleted /\ failed' >= failed
            /\ (deleted' + failed') - (deleted + failed)
                 = Cardinality(AttemptOver') - Cardinality(AttemptOver)
            /\ (deleted' + failed') - (deleted + failed) <= 1]_vars

C19_Witness ==
    /\ CleanupReturned
    /\ max_concurrent = 2 /\ pager.page_size = 2
    /\ deleted = 2 /\ failed = 1
    /\ Cardinality(Dispatched) = 3

\* ------------------------------------------------------------------ C20
\* C20: in cleanup.py a page request that fails, by a transport error just as
\* by a non-200 status, only ends the thing-deletion phase: the tallies are
\* still reported and the policy and connection steps still run (so, unless
\* one of those later steps raises, the run ends with all three done).
C20_PageErrorOnlyEndsThings ==
    (/\ prog = "cleanup" /\ pc = "done"
     /\ pager.error
     /\ cli.escaped \notin {"policy", "connection"}) =>
        /\ cli.reported
        /\ cli.policies
        /\ cli.connections

\* ------------------------------------------------------------------ C21
\* the call retried, and the backend would accept every retried id within the
\* allowed rounds: an id of flaky fails its first failFirst delete requests, so
\* its attempt of retry round failFirst is the first the backend accepts
CleanRoundWithinLimit ==
    /\ Returned /\ enable_retry
    /\ (Collected \cap flaky) # {}
    /\ failFirst <= max_retries

CreatesInFlight ==
    fleet.puts - (fleet.created_count
                  + Cardinality({i \in 1..Len(fleet.failed_creations) :
                                    fleet.failed_creations[i].kind = "thing"}))

\* C22: spawn_fleet makes exactly count create attempts, one at a time (never
\* two requests in flight), and goes on after a failed or raising attempt; at
\* return created_count + len(failed_creations) = requested_count = count,
\* success is true iff failed_creations is empty, and only the attempts the
\* backend answered with a success status are counted as created.
C22_SpawnTally ==
    prog = "spawn" =>
        /\ CreatesInFlight \in {0, 1}
        /\ fleet.done <= fleet.count
        /\ fleet.created_count + Len(fleet.failed_creations) = fleet.done
        /\ fleet.created_count = fleet.stored
        /\ pc = "done" =>
              /\ fleet.done = fleet.count
              /\ result.requested_count = fleet.count
              /\ result.created_count + Len(result.failed_creations)
                   = result.requested_count
              /\ result.created_count = fleet.stored
              /\ result.success <=> result.failed_creations = <<>>

C22_Witness ==
    /\ prog = "spawn" /\ pc = "done"
    /\ result.requested_count = 2
    /\ result.created_count = 1
    /\ result.failed_creations = <<[kind |-> "unknown", n |-> 0]>>
    /\ ~result.success

\* ------------------------------------------------------------------ C23
\* C23: every delete attempt issued by delete_all_things_parallel, in the
\* first pass and in every retry round, is made while the shared
\* httpx.AsyncClient opened by the function is still open; the client is
\* closed only after the last attempt of the last round has completed.
C23_ClientOpenForEveryAttempt ==
    [][(prog = "bulk" /\ attempts' # attempts) => (client_open /\ client_open')]_vars

\* ------------------------------------------------------------------ C24
\* C24: with enable_retry false, delete_all_things_parallel attempts each
\* collected id exactly once, retry_success and retry_failed are empty, the
\* returned failed_deletions holds exactly the ids that failed the first pass
\* (once each), and success is true iff there is none.
C24_NoRetryWhenDisabled ==
    (Returned /\ ~enable_retry) =>
        /\ \A id \in Collected : attempts[id] = 1 /\ backendDeletes[id] = 1
        /\ \A id \in Ids \ Collected : attempts[id] = 0
        /\ attempt = 0
        /\ result.retry_success = <<>> /\ result.retry_failed = <<>>
        /\ ToSet(result.failed_deletions) = Collected \ deletedThings
        /\ NoDuplicates(result.failed_deletions)
        /\ result.success <=> (Collected \ deletedThings = {})

C24_Witness ==
    /\ Returned /\ ~enable_retry
    /\ Len(all_thing_ids) = 3
    /\ Len(result.failed_deletions) = 2
    /\ result.deleted_count = 1
    /\ ~result.success

\* ------------------------------------------------------------------ C25
\* C25: for a finite id set, max_concurrent >= 1, finite max_retries and
\* delete attempts that each complete in the end, delete_all_things_parallel
\* eventually returns its summary, with no attempt left waiting for an
\* admission slot or in flight, and the retry loop runs at most max_retries
\* rounds.
C25_EventuallyReturns ==
    /\ <>(Returned /\ \A id \in Ids : st[id] \in {"none", "finished"})
    /\ [](attempt <= max_retries)

C25_Witness ==
    /\ Returned /\ attempt = 2 /\ max_retries = 2
    /\ max_concurrent = 1
    /\ Len(all_thing_ids) = 3

\* ------------------------------------------------------------------ C26
\* the semaphore of the run exists
SemaphoreLive ==
    \/ prog = "bulk" /\ pc \in {"first_pass", "retry", "retry_loop", "summary"}
    \/ prog = "cleanup" /\ pc \in {"cl_page", "cl_gather", "cl_exit"}

\* no task of the current round / page is waiting or in flight
NoTaskPending == \A id \in Ids : st[id] \in {"none", "finished"}

\* C26: every delete attempt gives its admission slot back when it finishes,
\* whether it succeeded, failed or raised: the free slots and the attempts in
\* flight always add up to max_concurrent, so after each round of
\* delete_all_things_parallel and after each page of cleanup.py's fan-out the
\* free slots are max_concurrent again and nothing is in flight.
C26_SlotsNeverLeak ==
    SemaphoreLive =>
        /\ sem >= 0
        /\ sem + Cardinality(InFlight) = max_concurrent
        /\ NoTaskPending => (sem = max_concurrent /\ InFlight = {})

C26_Witness ==
    /\ prog = "bulk" /\ pc = "retry_loop" /\ attempt = 1
    /\ max_concurrent = 2 /\ sem = 2
    /\ deleted_count = 1 /\ Len(failed_deletions) = 2

\* ------------------------------------------------------------------ C27
\* the ids of the page the loop of _delete_all_things_async is working on
CurrentPageIds ==
    ToSet(BackendPage(pager.current_cursor, pager.page_size).items)

\* C27: in _delete_all_things_async the request for page k+1 is issued only
\* after every delete task dispatched for page k has completed: a page request
\* is made with no task waiting or in flight, the deletions in flight all
\* belong to the current page, and they never exceed min(max_concurrent,
\* number of items of the current page).
C27_PageAfterGather ==
    /\ [](prog = "cleanup" =>
            /\ pc # "cl_gather" => \A id \in Ids : st[id] \notin {"waiting", "inflight"}
            /\ InFlight \subseteq CurrentPageIds
            /\ Cardinality(InFlight)
                 <= Min(max_concurrent, Cardinality(CurrentPageIds)))
    /\ [][(prog = "cleanup" /\ pager'.requests > pager.requests) =>
            (pc = "cl_page" /\ \A id \in Ids : st[id] \notin {"waiting", "inflight"})]_vars

C27_Witness ==
    /\ prog = "cleanup" /\ pc = "cl_gather"
    /\ pager.requests = 2 /\ pager.page_size = 2 /\ things = 3
    /\ attempts[1] = 1 /\ attempts[2] = 1
    /\ InFlight = {3}

\* ------------------------------------------------------------------ C28
\* C28: when the pager yields no ids (the backend is empty, or the very first
\* page request failed), delete_all_things_parallel issues no delete attempt
\* and returns total_found 0, deleted_count 0, all lists empty and success
\* true.
C28_NothingFound ==
    (Returned /\ all_thing_ids = <<>>) =>
        /\ \A id \in Ids : attempts[id] = 0 /\ backendDeletes[id] = 0
        /\ deletedThings = {}
        /\ result.total_found = 0
        /\ result.deleted_count = 0
        /\ result.failed_deletions = <<>>
        /\ result.retry_success = <<>>
        /\ result.retry_failed = <<>>
        /\ result.success

C28_Witness ==
    /\ Returned /\ all_thing_ids = <<>>
    /\ things = 2
    /\ result.total_found = 0 /\ result.success

\* ------------------------------------------------------------------ C29
\* the run has ended: it returned, exited, or was ended by an exception
RunEnded == pc \in {"done", "cancelled"}

\* C29: every HTTP client or session a cleanup or bulk-delete run opens is
\* closed by the time the run returns, on the success path and on every error
\* path: the httpx.Client session of cleanup.py, the DittoClient of
\* cleanup-ditto.py, and the httpx.AsyncClient of delete_all_things_parallel
\* and of _delete_all_things_async.
C29_ClientsClosedAtReturn ==
    (prog \in {"bulk", "cleanup", "ditto"} /\ RunEnded) =>
        /\ ~client_open
        /\ ~cli.session_open

====
